---- MODULE Spec2Model ----
(***************************************************************************)
(* Lobby and game addressing of jesterui (pgnr-ui): the LobbyPage          *)
(* discovery window and its two live queries, the current-game reference   *)
(* of the session settings, the SearchPage lookup of a jester id, the      *)
(* teardown of LobbyPage and the CreateMultipleGamesButton of its          *)
(* development section.                                                    *)
(*                                                                         *)
(* Times are JavaScript epoch milliseconds (Date.getTime()); created_at of *)
(* a game start event is in seconds.  The live queries are Dexie's         *)
(* useLiveQuery(querier, deps, null): a change of deps unsubscribes the    *)
(* running observable (its in-flight result is dropped) and subscribes a   *)
(* new one; a store mutation re-runs the querier of the open subscription. *)
(***************************************************************************)
EXTENDS Integers, Sequences, FiniteSets, TLC

\* ---------------------------------------------------------------- bounds
MaxAdvance == 3      \* clock advances explored after mount
MaxGameId == 2       \* raw game ids 1..MaxGameId of the events ingested after mount
MaxClosed == 1       \* superseded queries still in flight at one time
MaxAmount == 21      \* amounts 0..MaxAmount asked of CreateMultipleGamesButton

\* ------------------------------------------------------------- constants
GAMES_FILTER_PAST_DURATION_IN_MINUTES == 5
GAMES_FILTER_PAST_DURATION_IN_SECONDS == GAMES_FILTER_PAST_DURATION_IN_MINUTES * 60
MAX_AMOUNT_OF_GAMES == 100
MIN_UPDATE_IN_SECONDS == 10
PRIVATE_GAMES_LIMIT == 3
chunks == 10

\* --------------------------------------------------------------- helpers
Min(a, b) == IF a <= b THEN a ELSE b

\* the first n elements of s (Collection.limit(n))
Limit(s, n) == SubSeq(s, 1, Min(n, Len(s)))

Range(s) == {s[i] : i \in 1..Len(s)}

\* useLiveQuery's result: the default value null, or the array of a
\* completed query
Null == [isNull |-> TRUE, events |-> <<>>]

Some(events) == [isNull |-> FALSE, events |-> events]

\* ------------------------------------------------------ identifier codec
\* Strings that are searched or parsed are sequences of one-character
\* strings.  A jester id is the prefix, the separator "1", the payload
\* words of the raw game id and a checksum character.
Charset ==
  << "q", "p", "z", "r", "y", "9", "x", "8", "g", "f", "2", "t", "v", "d", "w", "0",
     "s", "3", "j", "n", "5", "4", "k", "h", "c", "e", "6", "m", "u", "a", "7", "l" >>

Base == Len(Charset)

CharValue(c) == (CHOOSE i \in 1..Base : Charset[i] = c) - 1

JESTER_ID_PREFIX == << "j", "e", "s", "t", "e", "r" >>

JesterIdHead == JESTER_ID_PREFIX \o << "1" >>

\* raw game ids that fit the payload width of the model
RawGameIds == 0..(Base * Base - 1)

Checksum(hi, lo) == (3 * hi + 5 * lo + 7) % Base

gameIdToJesterId(gameId) ==
  LET hi == gameId \div Base
      lo == gameId % Base
  IN  JesterIdHead \o << Charset[hi + 1], Charset[lo + 1], Charset[Checksum(hi, lo) + 1] >>

IsJesterId(s) ==
  /\ Len(s) = Len(JesterIdHead) + 3
  /\ SubSeq(s, 1, Len(JesterIdHead)) = JesterIdHead
  /\ \A i \in (Len(JesterIdHead) + 1)..Len(s) : s[i] \in Range(Charset)
  /\ CharValue(s[Len(s)]) = Checksum(CharValue(s[Len(s) - 2]), CharValue(s[Len(s) - 1]))

\* defined on valid jester ids only (the decoder throws on anything else)
jesterIdToGameId(jesterId) ==
  CharValue(jesterId[Len(jesterId) - 2]) * Base + CharValue(jesterId[Len(jesterId) - 1])

\* the parsed id, or the empty string for null
tryParseJesterId(s) == IF IsJesterId(s) THEN s ELSE <<>>

jesterPrivateStartGameRef(pubkey) == "ref:" \o pubkey

\* String.prototype.indexOf: the 0-based offset of the first occurrence, -1 if none
IndexOf(s, pat) ==
  LET hits == {i \in 0..(Len(s) - Len(pat)) : SubSeq(s, i + 1, i + Len(pat)) = pat}
  IN  IF hits = {} THEN -1 ELSE CHOOSE i \in hits : \A j \in hits : i <= j

\* String.prototype.substring(start)
Substring(s, start) == SubSeq(s, start + 1, Len(s))

\* ------------------------------------------------------------------ state
VARIABLES
  clock,                            \* Date.now(), epoch milliseconds
  tick,                             \* useState tick
  nextTimerAt,                      \* when the setInterval callback is due next
  tickEffectDue,                    \* tick changed, its effect has not run yet
  gameStartEventFilter,             \* useState gameStartEventFilter: [from, until]
  store,                            \* gameStore.game_start: set of game start events
  settings,                         \* useSettings(): currentGameJesterId, identity pubkey
  pubQueries,                       \* in-flight queries of listOfStartGamesLiveQuery
  privQueries,                      \* in-flight queries of listOfPrivateStartGamesLiveQuery
  listOfStartGamesLiveQuery,
  listOfPrivateStartGamesLiveQuery,
  searchInputValue,
  searchResults,
  inputIsJesterId,                  \* "null", "true" or "false"
  location,                         \* jester id of the route /redirect/game/<id>, <<>> if none
  timer,                            \* the setInterval timer: "running", "queued", "cleared"
  aborted,                          \* abortCtrl.signal.aborted
  outgoingNostr,                    \* useOutgoingNostrEvents() has given an event bus
  sessionPrivateKey,                \* getSession()?.privateKey, "" if none
  requestedAmount,                  \* amount of the last onButtonClicked, NoAmount before
  pendingTimeout,                   \* amount the pending setTimeout callback will be
                                    \* called with, NoAmount if none is pending
  createClicks,                     \* createGameButtonRef.current.click() calls since then
  lastBurst,                        \* click() calls of the last synchronous run
  timeoutsRun,                      \* setTimeout callbacks run since then
  lastOp                            \* the handler that ran last: its name; for setCurrent
                                    \* the jester id it set and the one it replaced; for
                                    \* a completed public query the window it was issued for

lobbyVars ==
  << clock, tick, nextTimerAt, tickEffectDue, gameStartEventFilter, store, settings,
     pubQueries, privQueries, listOfStartGamesLiveQuery, listOfPrivateStartGamesLiveQuery >>

searchVars == << searchInputValue, searchResults, inputIsJesterId, location >>

lifeVars == << timer, aborted >>

devVars ==
  << outgoingNostr, sessionPrivateKey, requestedAmount, pendingTimeout, createClicks,
     lastBurst, timeoutsRun >>

vars == << lobbyVars, searchVars, lifeVars, devVars, lastOp >>

NoWindow == [from |-> 0, until |-> 0]

NoAmount == -1

Op(name) == [name |-> name, game |-> <<>>, was |-> <<>>, win |-> NoWindow]

\* -------------------------------------------------------- discovery window
createGameOverviewFilter_PastOnly(now) ==
  [from |-> now - GAMES_FILTER_PAST_DURATION_IN_SECONDS * 1000, until |-> now]

createGameOverviewFilter(now) ==
  LET from == now - GAMES_FILTER_PAST_DURATION_IN_SECONDS * 1000
      until == now + GAMES_FILTER_PAST_DURATION_IN_SECONDS * 1000
  IN  [from |-> from, until |-> until]

TimerInterval == MIN_UPDATE_IN_SECONDS * 1000

ClockStep == TimerInterval \div 2

\* ------------------------------------------------------------ the queries
\* position of an event in the created_at index: index key, then primary key
CreatedAtKey(r) == r.created_at * (Base * Base) + r.id

\* position of an event among the entries of one event_tags key: primary key
PrimaryKey(r) == r.id

\* the events of index entries <<key, event>> with distinct keys in lo..hi,
\* in ascending order of the key (by bisection of lo..hi; es, l and h are
\* the values of the arguments)
RECURSIVE AscendingIn(_, _, _)
AscendingIn(entries, lo, hi) ==
  CHOOSE sorted \in
    {IF es = {} THEN <<>>
     ELSE IF l = h THEN << (CHOOSE e \in es : TRUE)[2] >>
     ELSE LET mid == (l + h) \div 2
          IN  AscendingIn({e \in es : e[1] <= mid}, l, mid)
                \o AscendingIn({e \in es : e[1] > mid}, mid + 1, h) :
     es \in {entries}, l \in {lo}, h \in {hi}} : TRUE

\* created_at below Base * Base seconds, ids below Base * Base
Ascending(entries) == AscendingIn(entries, 0, Base * Base * Base * Base - 1)

\* where('created_at').between(lower, upper): lower included, upper excluded.
\* The bounds are getTime() / 1000, compared here in milliseconds.
Between_UpperIncluded(r, filter) ==
  /\ filter.from <= r.created_at * 1000
  /\ r.created_at * 1000 <= filter.until

Between(r, filter) ==
  /\ filter.from <= r.created_at * 1000
  /\ r.created_at * 1000 < filter.until

PublicQuery(events, filter) ==
  LET matching == {r \in events : Between(r, filter)}
      ordered == Ascending({<< CreatedAtKey(r), r >> : r \in matching})
  IN  Limit(ordered, MAX_AMOUNT_OF_GAMES)

TagEquals(r, ref) == ref \in r.event_tags

PrivateQuery_Unlimited(events, ref) ==
  LET matching == {r \in events : TagEquals(r, ref)}
  IN  Ascending({<< PrimaryKey(r), r >> : r \in matching})

PrivateQuery(events, ref) ==
  LET matching == {r \in events : TagEquals(r, ref)}
      ordered == Ascending({<< PrimaryKey(r), r >> : r \in matching})
  IN  Limit(ordered, PRIVATE_GAMES_LIMIT)

\* the querier of listOfStartGamesLiveQuery
StartGamesQuerier_NullWhenEmpty(events, filter) ==
  IF PublicQuery(events, filter) = <<>> THEN Null ELSE Some(PublicQuery(events, filter))

StartGamesQuerier(events, filter) == Some(PublicQuery(events, filter))

\* the querier of listOfPrivateStartGamesLiveQuery
PrivateStartGamesQuerier(events, ref) ==
  IF ref = "" THEN Null ELSE Some(PrivateQuery(events, ref))

\* what the subscription of a live query does with a result: a closed
\* subscription drops it, the open one stores it
Deliver_IgnoreClosed(q, current, result) == result

Deliver(q, current, result) == IF q.closed THEN current ELSE result

\* ------------------------------------------------- values derived on render
publicKeyOrNull == settings.identity

privateStartGameRef ==
  IF publicKeyOrNull = "" THEN "" ELSE jesterPrivateStartGameRef(publicKeyOrNull)

NoGameId == -1

currentGameId ==
  IF settings.currentGameJesterId = <<>> THEN NoGameId
  ELSE jesterIdToGameId(settings.currentGameJesterId)

isCurrentGame_AnyCurrent(game) == currentGameId # NoGameId

isCurrentGame(game) == game.id = currentGameId

listOfStartGames ==
  IF listOfStartGamesLiveQuery.isNull THEN <<>> ELSE listOfStartGamesLiveQuery.events

listOfPrivateStartGames ==
  IF listOfPrivateStartGamesLiveQuery.isNull THEN <<>> ELSE listOfPrivateStartGamesLiveQuery.events

\* ------------------------------------------------------------------ inputs
PubKeys == {"K1", "K2"}

GameIds == 1..MaxGameId

\* created_at (seconds) of ingested events: the lower bound of the window of
\* the start time, which the first refresh leaves behind
CreatedAts == {300}

\* a public game, or a challenge of the viewer K1
TagSets == {{}, {jesterPrivateStartGameRef("K1")}}

StartTimes == {600000}

MaxClock == 600000 + MaxAdvance * ClockStep

\* --------------------------------------------------------------- lifecycle
\* The state once LobbyPage and SearchPage are mounted and their mount effects
\* have run: both live queries are subscribed and their first query is in flight.
InitSearch ==
  /\ searchInputValue = <<>>
  /\ searchResults = Null
  /\ inputIsJesterId = "null"
  /\ location = <<>>

InitLobby(times, stores, identities) ==
  /\ clock \in times
  /\ tick = clock
  /\ nextTimerAt = clock + TimerInterval
  /\ tickEffectDue = FALSE
  /\ gameStartEventFilter = createGameOverviewFilter(clock)
  /\ store \in stores
  /\ settings \in [currentGameJesterId : {<<>>}, identity : identities]
  /\ pubQueries = {[win |-> gameStartEventFilter, closed |-> FALSE]}
  /\ privQueries = {[ref |-> privateStartGameRef, closed |-> FALSE]}
  /\ listOfStartGamesLiveQuery = Null
  /\ listOfPrivateStartGamesLiveQuery = Null
  /\ timer = "running"
  /\ aborted = FALSE
  /\ lastOp = Op("mount")

\* CreateMultipleGamesButton as rendered and not clicked yet
InitDev(buses, privateKeys) ==
  /\ outgoingNostr \in buses
  /\ sessionPrivateKey \in privateKeys
  /\ requestedAmount = NoAmount
  /\ pendingTimeout = NoAmount
  /\ createClicks = 0
  /\ lastBurst = 0
  /\ timeoutsRun = 0

Init == InitLobby(StartTimes, {{}}, {"K1"}) /\ InitSearch /\ InitDev({TRUE}, {"S1"})

\* useLiveQuery on a change of deps: the open subscription is closed, a new
\* one is subscribed and runs its querier
Resubscribe_KeepsOld(queries, fresh) == queries

Resubscribe(queries, fresh) ==
  {[q EXCEPT !.closed = TRUE] : q \in queries} \cup {fresh}

\* ----------------------------------------------------------- refresh cycle
AdvanceClock ==
  /\ clock + ClockStep <= MaxClock
  /\ clock' = clock + ClockStep
  /\ lastOp' = Op("advanceClock")
  /\ UNCHANGED << tick, nextTimerAt, tickEffectDue, gameStartEventFilter, store, settings,
                  pubQueries, privQueries, listOfStartGamesLiveQuery,
                  listOfPrivateStartGamesLiveQuery, searchVars, lifeVars, devVars >>

\* the body of the setInterval callback,
\* !abortCtrl.signal.aborted && setTick((_) => Date.now()): the next tick
TimerCallback_NoAbortCheck(isAborted, current, now) == now

TimerCallback(isAborted, current, now) == IF isAborted THEN current ELSE now

\* The setInterval callback runs: of the running timer when it is due, or the
\* one run that was already queued when clearInterval was called.
TimerTick ==
  /\ timer # "cleared"
  /\ clock >= nextTimerAt
  /\ tick' = TimerCallback(aborted, tick, clock)
  /\ nextTimerAt' = nextTimerAt + TimerInterval
  /\ tickEffectDue' = (tickEffectDue \/ tick' # tick)
  /\ timer' = IF timer = "queued" THEN "cleared" ELSE timer
  /\ lastOp' = Op("timerTick")
  /\ UNCHANGED << clock, gameStartEventFilter, store, settings, pubQueries, privQueries,
                  listOfStartGamesLiveQuery, listOfPrivateStartGamesLiveQuery, aborted,
                  searchVars, devVars >>

\* the effect of [tick]: setGameStartEventFilter(createGameOverviewFilter(new Date())),
\* and the public live query, whose deps hold the new filter object, resubscribes
TickEffect ==
  /\ ~aborted
  /\ tickEffectDue
  /\ Cardinality(pubQueries) <= MaxClosed
  /\ tickEffectDue' = FALSE
  /\ gameStartEventFilter' = createGameOverviewFilter(clock)
  /\ pubQueries' = Resubscribe(pubQueries, [win |-> gameStartEventFilter', closed |-> FALSE])
  /\ lastOp' = Op("tickEffect")
  /\ UNCHANGED << clock, tick, nextTimerAt, store, settings, privQueries,
                  listOfStartGamesLiveQuery, listOfPrivateStartGamesLiveQuery, searchVars, lifeVars, devVars >>

\* ------------------------------------------------------------------ store
\* The store ingests a game start event; the open subscriptions whose
\* observed range holds the new event run their querier again.
Ingest(ids, createdAts, tagSets) ==
  \E id \in ids, c \in createdAts, tags \in tagSets :
    LET event == [id |-> id, created_at |-> c, event_tags |-> tags]
    IN  /\ \A r \in store : r.id # id
        /\ store' = store \cup {event}
        /\ pubQueries' =
             IF ~aborted /\ Between(event, gameStartEventFilter)
             THEN pubQueries \cup {[win |-> gameStartEventFilter, closed |-> FALSE]}
             ELSE pubQueries
        /\ privQueries' =
             IF ~aborted /\ privateStartGameRef # "" /\ TagEquals(event, privateStartGameRef)
             THEN privQueries \cup {[ref |-> privateStartGameRef, closed |-> FALSE]}
             ELSE privQueries
        /\ lastOp' = Op("ingest")
        /\ UNCHANGED << clock, tick, nextTimerAt, tickEffectDue, gameStartEventFilter, settings,
                        listOfStartGamesLiveQuery, listOfPrivateStartGamesLiveQuery, searchVars, lifeVars, devVars >>

\* ------------------------------------------------------------ live queries
\* A query of listOfStartGamesLiveQuery completes: the result of a closed
\* subscription is dropped, the result of the open one becomes the value.
\* the store answers the query q of listOfStartGamesLiveQuery
CompletePublicQuery(q) ==
  /\ q \in pubQueries
  /\ pubQueries' = pubQueries \ {q}
  /\ listOfStartGamesLiveQuery' =
       Deliver(q, listOfStartGamesLiveQuery, StartGamesQuerier(store, q.win))
  /\ lastOp' = [Op("completePublic") EXCEPT !.win = q.win]
  /\ UNCHANGED << clock, tick, nextTimerAt, tickEffectDue, gameStartEventFilter, store,
                  settings, privQueries, listOfPrivateStartGamesLiveQuery, searchVars,
                  lifeVars, devVars >>

CompletePublic_ClearsAbsentCurrent ==
  \E q \in pubQueries :
    /\ pubQueries' = pubQueries \ {q}
    /\ listOfStartGamesLiveQuery' =
         Deliver(q, listOfStartGamesLiveQuery, StartGamesQuerier(store, q.win))
    /\ settings' =
         IF \E i \in 1..Len(listOfStartGamesLiveQuery'.events) :
              isCurrentGame(listOfStartGamesLiveQuery'.events[i])
         THEN settings
         ELSE [settings EXCEPT !.currentGameJesterId = <<>>]
    /\ lastOp' = [Op("completePublic") EXCEPT !.win = q.win]
    /\ UNCHANGED << clock, tick, nextTimerAt, tickEffectDue, gameStartEventFilter, store,
                    privQueries, listOfPrivateStartGamesLiveQuery, searchVars, lifeVars, devVars >>

CompletePublic == \E q \in pubQueries : CompletePublicQuery(q)

CompletePrivate ==
  \E q \in privQueries :
    /\ privQueries' = privQueries \ {q}
    /\ listOfPrivateStartGamesLiveQuery' =
         Deliver(q, listOfPrivateStartGamesLiveQuery, PrivateStartGamesQuerier(store, q.ref))
    /\ lastOp' = Op("completePrivate")
    /\ UNCHANGED << clock, tick, nextTimerAt, tickEffectDue, gameStartEventFilter, store,
                    settings, pubQueries, listOfStartGamesLiveQuery, searchVars, lifeVars, devVars >>

\* --------------------------------------------------------------- settings
\* the settings hold another identity: privateStartGameRef changes and the
\* private live query resubscribes
SetIdentity(identities) ==
  \E k \in identities :
    /\ ~aborted
    /\ k # settings.identity
    /\ Cardinality(privQueries) <= MaxClosed
    /\ settings' = [settings EXCEPT !.identity = k]
    /\ privQueries' =
         Resubscribe(privQueries,
                     [ref |-> IF k = "" THEN "" ELSE jesterPrivateStartGameRef(k), closed |-> FALSE])
    /\ lastOp' = Op("setIdentity")
    /\ UNCHANGED << clock, tick, nextTimerAt, tickEffectDue, gameStartEventFilter, store,
                    pubQueries, listOfStartGamesLiveQuery, listOfPrivateStartGamesLiveQuery,
                    searchVars, lifeVars, devVars >>

\* the user starts or accepts a game
setCurrent(ids) ==
  \E id \in ids :
    /\ settings' = [settings EXCEPT !.currentGameJesterId = gameIdToJesterId(id)]
    /\ lastOp' = [Op("setCurrent") EXCEPT !.game = gameIdToJesterId(id),
                                          !.was = settings.currentGameJesterId]
    /\ UNCHANGED << clock, tick, nextTimerAt, tickEffectDue, gameStartEventFilter, store,
                    pubQueries, privQueries, listOfStartGamesLiveQuery,
                    listOfPrivateStartGamesLiveQuery, searchVars, lifeVars, devVars >>

\* the close button of the current game card
unsubscribeFromCurrentGame ==
  /\ settings' = [settings EXCEPT !.currentGameJesterId = <<>>]
  /\ lastOp' = Op("unsubscribeFromCurrentGame")
  /\ UNCHANGED << clock, tick, nextTimerAt, tickEffectDue, gameStartEventFilter, store,
                  pubQueries, privQueries, listOfStartGamesLiveQuery,
                  listOfPrivateStartGamesLiveQuery, searchVars, lifeVars, devVars >>

Next ==
  \/ AdvanceClock
  \/ TimerTick
  \/ TickEffect
  \/ Ingest(GameIds, CreatedAts, TagSets)
  \/ CompletePublic
  \/ CompletePrivate
  \/ setCurrent(GameIds)
  \/ unsubscribeFromCurrentGame

Spec == Init /\ [][Next]_vars

\* ------------------------------------------------------------- search page
\* texts typed into the search field: a body (a jester id, a jester id with a
\* wrong checksum, the bare prefix, another text, nothing) between a leading
\* and a trailing text
CorruptId(id) ==
  LET jesterId == gameIdToJesterId(id)
      last == jesterId[Len(jesterId)]
  IN  [jesterId EXCEPT ![Len(jesterId)] = Charset[((CharValue(last) + 1) % Base) + 1]]

SearchBodies ==
  {gameIdToJesterId(id) : id \in GameIds} \cup {CorruptId(id) : id \in GameIds}
    \cup {JesterIdHead, << "a", "b" >>, <<>>}

LeadingTexts == {<<>>, << "h", ":", "/" >>, JesterIdHead \o << ".", "/" >>}

TrailingTexts == {<<>>, << "/" >>, << "q" >>}

SearchInputs == {p \o b \o q : p \in LeadingTexts, b \in SearchBodies, q \in TrailingTexts}

search_NoParseCheck(searchInput) ==
  LET indexOfPrefix == IndexOf(searchInput, JesterIdHead)
      possibleJesterId == Substring(searchInput, indexOfPrefix)
  IN  IF searchInput = <<>>
      THEN /\ searchResults' = Some(<<>>)
           /\ UNCHANGED << inputIsJesterId, location >>
      ELSE IF indexOfPrefix < 0
      THEN /\ inputIsJesterId' = "false"
           /\ searchResults' = Some(<<>>)
           /\ UNCHANGED location
      ELSE /\ inputIsJesterId' = "true"
           /\ searchResults' = Null
           /\ location' = possibleJesterId

search(searchInput) ==
  LET indexOfPrefix == IndexOf(searchInput, JesterIdHead)
      possibleJesterId == Substring(searchInput, indexOfPrefix)
      jesterId == tryParseJesterId(possibleJesterId)
  IN  IF searchInput = <<>>
      THEN /\ searchResults' = Some(<<>>)
           /\ UNCHANGED << inputIsJesterId, location >>
      ELSE IF indexOfPrefix < 0
      THEN /\ inputIsJesterId' = "false"
           /\ searchResults' = Some(<<>>)
           /\ UNCHANGED location
      ELSE IF jesterId = <<>>
      THEN /\ searchResults' = Some(<<>>)
           /\ inputIsJesterId' = "false"
           /\ UNCHANGED location
      ELSE /\ inputIsJesterId' = "true"
           /\ searchResults' = Null
           /\ location' = jesterId

onSearchButtonClicked ==
  /\ location = <<>>
  /\ search(searchInputValue)
  /\ lastOp' = Op("search")
  /\ UNCHANGED << searchInputValue, lobbyVars, lifeVars, devVars >>

onSearchInputChange ==
  \E text \in SearchInputs :
    /\ location = <<>>
    /\ searchInputValue' = text
    /\ inputIsJesterId' = "null"
    /\ searchResults' = Null
    /\ lastOp' = Op("searchInputChange")
    /\ UNCHANGED << location, lobbyVars, lifeVars, devVars >>

\* the user comes back from the game route: SearchPage mounts anew
returnToSearch ==
  /\ location # <<>>
  /\ searchInputValue' = <<>>
  /\ searchResults' = Null
  /\ inputIsJesterId' = "null"
  /\ location' = <<>>
  /\ lastOp' = Op("returnToSearch")
  /\ UNCHANGED << lobbyVars, lifeVars, devVars >>

NextSearch ==
  \/ onSearchInputChange
  \/ onSearchButtonClicked
  \/ returnToSearch

SpecSearch == Init /\ [][NextSearch]_vars

\* ----------------------------------------------------- flooded event store
\* LobbyPage mounted by the viewer K1 on an empty store or on a store that a
\* relay has flooded with as many challenges of K1, created inside the window,
\* as the limit of the public query, at a start time on or off a full second.
FloodedStore(count) ==
  {[id |-> MaxGameId + i, created_at |-> 600,
    event_tags |-> {jesterPrivateStartGameRef("K1")}] : i \in 1..count}

FloodedStores == {{}, FloodedStore(MAX_AMOUNT_OF_GAMES)}

FloodStartTimes == {600000, 600500}

\* created_at (seconds) of ingested events: the two bounds of the window of
\* the full-second start time
FloodCreatedAts == {300, 900}

FloodTagSets == {{jesterPrivateStartGameRef("K1")}, {jesterPrivateStartGameRef("K2")}}

InitStore ==
  InitLobby(FloodStartTimes, FloodedStores, {"K1"}) /\ InitSearch /\ InitDev({TRUE}, {"S1"})

\* raw game ids of the two events ingested into the flooded store
FloodGameIds == {1, 2}

NextStore ==
  \/ Ingest(FloodGameIds, FloodCreatedAts, FloodTagSets)
  \/ CompletePublic
  \/ CompletePrivate
  \/ SetIdentity({"", "K1"})

SpecStore == InitStore /\ [][NextStore]_vars

\* ------------------------------------------------------- unending refresh
\* The refresh cycle followed without an end of time: times are kept relative
\* to the present instant, so when time passes the clock stays and every time
\* that is held moves into the past.
Max(a, b) == IF a >= b THEN a ELSE b

\* the present instant all times are relative to
Present == CHOOSE t \in StartTimes : TRUE

\* The store answers a query before MaxClosed + 1 timer intervals have passed
\* since its window was computed: the earliest lower bound of the window of
\* a query in flight
OldestFrom ==
  Present - GAMES_FILTER_PAST_DURATION_IN_SECONDS * 1000 - (MaxClosed + 1) * TimerInterval

\* created_at (seconds) that lies before the lower bound of every window a
\* query in flight can have; an event that reaches it stays there
AgedOut == (OldestFrom - ClockStep) \div 1000

RebaseWindow(w) == [from |-> w.from - ClockStep, until |-> w.until - ClockStep]

RebaseEvent(r) == [r EXCEPT !.created_at = Max(AgedOut, @ - ClockStep \div 1000)]

RebaseResult(v) ==
  IF v.isNull THEN v ELSE Some([i \in 1..Len(v.events) |-> RebaseEvent(v.events[i])])

\* Half a timer interval passes.  The callback of the timer runs when it is
\* due and the effect of a tick right after it, so time passes only while
\* neither is outstanding and no query in flight is as old as the store lets
\* one become.
Elapse ==
  /\ clock < nextTimerAt
  /\ ~tickEffectDue
  /\ \A q \in pubQueries : q.win.from - ClockStep >= OldestFrom
  /\ tick' = tick - ClockStep
  /\ nextTimerAt' = nextTimerAt - ClockStep
  /\ gameStartEventFilter' = RebaseWindow(gameStartEventFilter)
  /\ pubQueries' = {[q EXCEPT !.win = RebaseWindow(q.win)] : q \in pubQueries}
  /\ store' = {RebaseEvent(r) : r \in store}
  /\ listOfStartGamesLiveQuery' = RebaseResult(listOfStartGamesLiveQuery)
  /\ listOfPrivateStartGamesLiveQuery' = RebaseResult(listOfPrivateStartGamesLiveQuery)
  /\ lastOp' = Op("elapse")
  /\ UNCHANGED << clock, tickEffectDue, settings, privQueries, searchVars, lifeVars, devVars >>

\* the store answers the query in flight that was issued first
CompleteOldest ==
  \E q \in pubQueries :
    /\ \A other \in pubQueries : q.win.from <= other.win.from
    /\ CompletePublicQuery(q)

\* raw game ids of the two events ingested while the refresh cycle runs
LiveGameIds == {1, 2}

NextLive ==
  \/ Elapse
  \/ TimerTick
  \/ TickEffect
  \/ Ingest(LiveGameIds, CreatedAts, {{}})
  \/ CompletePublic

\* The store answers every query: the query in flight that was issued first
\* is not left unanswered for ever, so each query is answered once the
\* finitely many issued before it are.
SpecLive ==
  /\ Init
  /\ [][NextLive]_vars
  /\ WF_vars(CompleteOldest)

\* ---------------------------------------------------------------- teardown
\* useLiveQuery at unmount: every subscription is unsubscribed
Unsubscribe(queries) == {[q EXCEPT !.closed = TRUE] : q \in queries}

\* LobbyPage unmounts after the pending effects have run: the cleanup of the
\* timer effect calls clearInterval(timer) and abortCtrl.abort(), and both
\* live queries unsubscribe.  A callback of the timer that is due at that
\* moment may already be queued.
Teardown ==
  /\ ~aborted
  /\ ~tickEffectDue
  /\ timer' = IF clock >= nextTimerAt THEN "queued" ELSE "cleared"
  /\ aborted' = TRUE
  /\ pubQueries' = Unsubscribe(pubQueries)
  /\ privQueries' = Unsubscribe(privQueries)
  /\ lastOp' = Op("teardown")
  /\ UNCHANGED << clock, tick, nextTimerAt, tickEffectDue, gameStartEventFilter, store,
                  settings, listOfStartGamesLiveQuery, listOfPrivateStartGamesLiveQuery,
                  searchVars, devVars >>

NextTeardown ==
  \/ AdvanceClock
  \/ TimerTick
  \/ TickEffect
  \/ Ingest(GameIds, CreatedAts, {{}})
  \/ CompletePublic
  \/ Teardown

SpecTeardown == Init /\ [][NextTeardown]_vars

\* ------------------------------------------------ CreateMultipleGamesButton
privateKeyOrNull == sessionPrivateKey

Amounts == 0..MaxAmount

\* click() calls of one synchronous run of __dev_createMultipleGames(amount)
BurstOf(amount) == IF amount <= chunks THEN amount ELSE chunks

\* the amount handed to setTimeout by __dev_createMultipleGames(amount),
\* NoAmount if it sets no timeout
RemainingAfterChunk_NotReduced(amount) ==
  IF amount <= chunks THEN NoAmount ELSE amount

RemainingAfterChunk(amount) ==
  IF amount <= chunks THEN NoAmount ELSE amount - chunks

\* one synchronous run after clicksBefore clicks: up to chunks clicks, the rest
\* left to a timeout
__dev_createMultipleGames(amount, clicksBefore) ==
  /\ createClicks' = clicksBefore + BurstOf(amount)
  /\ lastBurst' = BurstOf(amount)
  /\ pendingTimeout' = RemainingAfterChunk(amount)

\* the button is clicked while no earlier request is still creating games
onButtonClicked(amounts) ==
  \E amount \in amounts :
    /\ pendingTimeout = NoAmount
    /\ requestedAmount' = amount
    /\ timeoutsRun' = 0
    /\ IF ~outgoingNostr \/ publicKeyOrNull = "" \/ privateKeyOrNull = ""
       THEN /\ createClicks' = 0
            /\ lastBurst' = 0
            /\ pendingTimeout' = NoAmount
            /\ lastOp' = Op("alert")
       ELSE /\ __dev_createMultipleGames(amount, 0)
            /\ lastOp' = Op("onButtonClicked")
    /\ UNCHANGED << outgoingNostr, sessionPrivateKey, lobbyVars, searchVars, lifeVars >>

\* the callback of setTimeout(() => __dev_createMultipleGames(amount - chunks), 4)
createTimeout ==
  /\ pendingTimeout # NoAmount
  /\ __dev_createMultipleGames(pendingTimeout, createClicks)
  /\ timeoutsRun' = timeoutsRun + 1
  /\ lastOp' = Op("createTimeout")
  /\ UNCHANGED << outgoingNostr, sessionPrivateKey, requestedAmount, lobbyVars, searchVars,
                  lifeVars >>

InitDevButton ==
  InitLobby(StartTimes, {{}}, {"", "K1"}) /\ InitSearch /\ InitDev(BOOLEAN, {"", "S1"})

NextDev ==
  \/ onButtonClicked(Amounts)
  \/ createTimeout

SpecDev == InitDevButton /\ [][NextDev]_vars

\* ================================================================== claims
WindowSpan == 2 * GAMES_FILTER_PAST_DURATION_IN_SECONDS * 1000

\* games handed to the two GameList components
PresentedGames == Range(listOfStartGames) \cup Range(listOfPrivateStartGames)

IsDuplicateFree(s) == Cardinality(Range(s)) = Len(s)

\* C1: the window computed for the present instant contains it strictly and
\* spans twice the configured duration, and so does every window that is
\* held, the ones installed by the effect of a refresh tick included.
C1_WindowContainment ==
  /\ LET w == createGameOverviewFilter(clock)
     IN  /\ w.from < clock
         /\ clock < w.until
         /\ w.from = clock - GAMES_FILTER_PAST_DURATION_IN_SECONDS * 1000
         /\ w.until = clock + GAMES_FILTER_PAST_DURATION_IN_SECONDS * 1000
         /\ w.until - w.from = WindowSpan
  /\ gameStartEventFilter.until - gameStartEventFilter.from = WindowSpan
  /\ lastOp.name = "tickEffect" =>
       /\ gameStartEventFilter.from < clock
       /\ clock < gameStartEventFilter.until

\* a refresh tick has installed a window other than the one of the mount
C1_Witness ==
  /\ lastOp.name = "tickEffect"
  /\ gameStartEventFilter.from > 300000

\* C2: whenever the public list is set, it holds only events created in
\* [from, until) of the held window, at most MAX_AMOUNT_OF_GAMES of them, each
\* once, and all of them when at most MAX_AMOUNT_OF_GAMES match.
C2_PublicQueryRangeAndLimit ==
  [][listOfStartGamesLiveQuery' # listOfStartGamesLiveQuery =>
       LET result == listOfStartGamesLiveQuery'.events
           matching == {r \in store : /\ gameStartEventFilter.from <= r.created_at * 1000
                                      /\ r.created_at * 1000 < gameStartEventFilter.until}
       IN  /\ ~listOfStartGamesLiveQuery'.isNull
           /\ Range(result) \subseteq matching
           /\ IsDuplicateFree(result)
           /\ Len(result) <= 100
           /\ Cardinality(matching) <= 100 => Range(result) = matching
           /\ Cardinality(matching) > 100 => Len(result) = 100]_vars

\* more than 100 events match; the list holds 100, the event created exactly
\* at from among them, and not the event created exactly at until
C2_Witness ==
  /\ ~listOfStartGamesLiveQuery.isNull
  /\ Len(listOfStartGamesLiveQuery.events) = 100
  /\ Cardinality({r \in store : /\ gameStartEventFilter.from <= r.created_at * 1000
                                /\ r.created_at * 1000 < gameStartEventFilter.until}) > 100
  /\ \E r \in Range(listOfStartGamesLiveQuery.events) :
       r.created_at * 1000 = gameStartEventFilter.from
  /\ \E r \in store : r.created_at * 1000 = gameStartEventFilter.until

C4_UnknownDistinctFromEmpty ==
  listOfStartGamesLiveQuery.isNull => listOfStartGames # <<>>

\* C4 (amended): the value of the live query is null until a query completes
\* and is never null afterwards, also without matches; the list handed to the
\* presentation is empty whenever the value is null.
C4_UnknownOnlyInLiveQueryValue ==
  [][/\ listOfStartGamesLiveQuery.isNull => listOfStartGames = <<>>
     /\ listOfStartGamesLiveQuery' # listOfStartGamesLiveQuery =>
          ~listOfStartGamesLiveQuery'.isNull]_vars

\* no query has completed, the store holds a game of the held window, and the
\* presented list is empty
C4_Witness ==
  /\ listOfStartGamesLiveQuery.isNull
  /\ pubQueries # {}
  /\ \E r \in store : /\ gameStartEventFilter.from <= r.created_at * 1000
                      /\ r.created_at * 1000 < gameStartEventFilter.until
  /\ listOfStartGames = <<>>

\* C5: the games marked current in both lists are exactly the ones whose id
\* encodes to the held jester id; after setCurrent(B) that is B and no game of
\* the replaced A, after the dismissal it is no game; the marked games never
\* have more than one id.
C5_CurrentGameExclusive ==
  /\ \A g \in PresentedGames :
       isCurrentGame(g) <=> gameIdToJesterId(g.id) = settings.currentGameJesterId
  /\ lastOp.name = "setCurrent" =>
       /\ settings.currentGameJesterId = lastOp.game
       /\ \A g \in PresentedGames :
            /\ isCurrentGame(g) <=> gameIdToJesterId(g.id) = lastOp.game
            /\ (gameIdToJesterId(g.id) = lastOp.was /\ lastOp.was # lastOp.game) => ~isCurrentGame(g)
  /\ lastOp.name = "unsubscribeFromCurrentGame" =>
       \A g \in PresentedGames : ~isCurrentGame(g)
  /\ Cardinality({g.id : g \in {h \in PresentedGames : isCurrentGame(h)}}) <= 1

\* setCurrent(B) has replaced A; the public list shows A's game unmarked and
\* the private list shows B's game marked
C5_Witness ==
  /\ lastOp.name = "setCurrent"
  /\ lastOp.was # <<>>
  /\ lastOp.was # lastOp.game
  /\ \E g \in Range(listOfStartGames) : gameIdToJesterId(g.id) = lastOp.was /\ ~isCurrentGame(g)
  /\ \E g \in Range(listOfPrivateStartGames) : gameIdToJesterId(g.id) = lastOp.game /\ isCurrentGame(g)

\* C6: the current game reference changes only in setCurrent and in the
\* dismissal, and becomes empty only in the dismissal.
C6_OnlyDismissalClears ==
  [][settings'.currentGameJesterId # settings.currentGameJesterId =>
       /\ lastOp'.name \in {"setCurrent", "unsubscribeFromCurrentGame"}
       /\ settings'.currentGameJesterId = <<>> => lastOp'.name = "unsubscribeFromCurrentGame"]_vars

\* a query of a refreshed window has completed without the current game,
\* which the store does not hold either, and the reference is still held
C6_Witness ==
  /\ lastOp.name = "completePublic"
  /\ lastOp.win = gameStartEventFilter
  /\ gameStartEventFilter.from > 300000
  /\ settings.currentGameJesterId # <<>>
  /\ \A r \in store : ~isCurrentGame(r)
  /\ store # {}

\* C7 (as claimed): a search for a text that holds a valid jester id between
\* any leading and trailing text navigates to that game.
C7_IdLocatedAnywhere ==
  lastOp.name = "search" =>
    \A id \in GameIds, p \in LeadingTexts, q \in TrailingTexts :
      searchInputValue = p \o gameIdToJesterId(id) \o q => location = gameIdToJesterId(id)

\* C8: after a search the route is a game exactly if the text holds the prefix
\* and what follows its first occurrence parses; the route then is the parsed
\* id, and otherwise the results are the empty list and the route is unchanged.
C8_NavigatesOnlyOnParsedId ==
  /\ location # <<>> => tryParseJesterId(location) = location
  /\ lastOp.name = "search" =>
       LET at == IndexOf(searchInputValue, JesterIdHead)
           parsed == IF searchInputValue # <<>> /\ at >= 0
                     THEN tryParseJesterId(Substring(searchInputValue, at))
                     ELSE <<>>
       IN  IF parsed # <<>>
           THEN location = parsed
           ELSE location = <<>> /\ searchResults = Some(<<>>)

\* the text holds the prefix, what follows it does not parse, and the search
\* has reported no results without navigating
C8_Witness ==
  /\ lastOp.name = "search"
  /\ IndexOf(searchInputValue, JesterIdHead) >= 0
  /\ tryParseJesterId(Substring(searchInputValue, IndexOf(searchInputValue, JesterIdHead))) = <<>>
  /\ searchResults = Some(<<>>)
  /\ location = <<>>

\* C9: whenever the private list is set, it is null (no event) if there is no
\* viewer key; otherwise it holds only events tagged with the reference of
\* the viewer key, at most three, each once, and all of them when at most
\* three are tagged.
C9_PrivateQueryTagAndLimit ==
  [][listOfPrivateStartGamesLiveQuery' # listOfPrivateStartGamesLiveQuery =>
       LET result == listOfPrivateStartGamesLiveQuery'.events
           tagged == {r \in store : ("ref:" \o settings.identity) \in r.event_tags}
       IN  IF settings.identity = ""
           THEN listOfPrivateStartGamesLiveQuery'.isNull /\ result = <<>>
           ELSE /\ ~listOfPrivateStartGamesLiveQuery'.isNull
                /\ Range(result) \subseteq tagged
                /\ IsDuplicateFree(result)
                /\ Len(result) <= 3
                /\ Cardinality(tagged) <= 3 => Range(result) = tagged]_vars

\* the viewer K1 has more than three challenges, the store holds a challenge
\* of another key, and the list holds three challenges of K1
C9_Witness ==
  /\ settings.identity = "K1"
  /\ ~listOfPrivateStartGamesLiveQuery.isNull
  /\ Len(listOfPrivateStartGamesLiveQuery.events) = 3
  /\ Cardinality({r \in store : "ref:K1" \in r.event_tags}) > 3
  /\ \E r \in store : r.event_tags = {"ref:K2"}
  /\ \A r \in Range(listOfPrivateStartGamesLiveQuery.events) : "ref:K1" \in r.event_tags

\* C10 (as claimed): the private list is in the order of created_at, either
\* ascending or descending.
C10_PrivateOrderedByCreation ==
  LET result == listOfPrivateStartGamesLiveQuery.events
  IN  \/ \A i, j \in 1..Len(result) : i < j => result[i].created_at <= result[j].created_at
      \/ \A i, j \in 1..Len(result) : i < j => result[i].created_at >= result[j].created_at

\* a step that installs a window leaves one open query, issued for that
\* window, in flight, and so does the ingestion of an event inside the held
\* window
C11_Reissued ==
  /\ lastOp'.name = "tickEffect" =>
       /\ [win |-> gameStartEventFilter', closed |-> FALSE] \in pubQueries'
       /\ \A q \in pubQueries' : ~q.closed => q.win = gameStartEventFilter'
  /\ (lastOp'.name = "ingest" /\ \E r \in store' \ store : Between(r, gameStartEventFilter)) =>
       [win |-> gameStartEventFilter, closed |-> FALSE] \in pubQueries'

OpenQueryInFlight == \E q \in pubQueries : ~q.closed

\* the last step has set the live-query value from a query issued for the
\* window that is held
SetFromHeldWindow ==
  /\ lastOp.name = "completePublic"
  /\ lastOp.win = gameStartEventFilter
  /\ listOfStartGamesLiveQuery = Some(PublicQuery(store, gameStartEventFilter))

\* the store answers the query of the open subscription
CompleteOpen == \E q \in pubQueries : ~q.closed /\ CompletePublicQuery(q)

\* C11 as stated: every change of the window and every ingestion of a
\* matching event reissues the query for the held window, and, the store
\* answering every query, a query in flight leads to the list being set from
\* a query issued for the window held at that moment.
C11_EventuallySetFromHeldWindow ==
  /\ [][C11_Reissued]_vars
  /\ OpenQueryInFlight ~> SetFromHeldWindow

\* C11: every change of the window and every ingestion of a matching event
\* reissues the query for the held window, and, if the store does not for
\* ever answer the query of the open subscription only after the next refresh
\* has superseded it, a query in flight leads to the list being set from a
\* query issued for the window held at that moment.
C11_SetFromHeldWindowIfAnsweredInTime ==
  /\ [][C11_Reissued]_vars
  /\ WF_vars(CompleteOpen) => (OpenQueryInFlight ~> SetFromHeldWindow)

\* after a refresh the list has been set from the query of the held window:
\* it holds the one event inside it and not the one the window has left behind
C11_Witness ==
  /\ SetFromHeldWindow
  /\ \E r \in store : ~Between(r, gameStartEventFilter)
  /\ Len(listOfStartGamesLiveQuery.events) = 1

\* C12: the teardown leaves the timer cancelled and the abort flag set, and
\* from then on no step changes the tick or the held window, the step of a
\* timer callback that was already queued included, and the flag stays set
\* and the timer cancelled; the tick is only ever changed by the callback of
\* the one timer, which moves its next due time on by a full interval, and
\* the held window only by the effect of a tick.
C12_NoRefreshAfterTeardown ==
  [][/\ aborted' => timer' # "running"
     /\ aborted => /\ aborted'
                   /\ tick' = tick
                   /\ gameStartEventFilter' = gameStartEventFilter
                   /\ ~tickEffectDue'
     /\ tick' # tick => /\ lastOp'.name = "timerTick"
                        /\ nextTimerAt' = nextTimerAt + TimerInterval
     /\ gameStartEventFilter' # gameStartEventFilter => lastOp'.name = "tickEffect"]_vars

\* a callback that was queued at the teardown has run after it, at a time
\* later than the tick that is held
C12_Witness ==
  /\ aborted
  /\ timer = "cleared"
  /\ lastOp.name = "timerTick"
  /\ clock > tick

\* the three things onButtonClicked asks for before it creates games
PreconditionsMet == outgoingNostr /\ publicKeyOrNull # "" /\ privateKeyOrNull # ""

\* C13: after the button was clicked for an amount N, with the event bus and
\* both keys available every synchronous run has made at most chunks clicks,
\* a pending timeout carries a positive rest that with the clicks made adds up
\* to N (so each timeout that runs shortens the rest by chunks and at most
\* N / chunks of them run), and once no timeout is pending exactly N clicks
\* have been made; with the bus or a key missing no click is made and no
\* timeout is set.
C13_ExactlyRequestedClicks ==
  requestedAmount # NoAmount =>
    /\ lastBurst <= chunks
    /\ ~PreconditionsMet => (createClicks = 0 /\ pendingTimeout = NoAmount)
    /\ PreconditionsMet =>
         /\ createClicks = chunks * timeoutsRun + lastBurst
         /\ timeoutsRun * chunks <= requestedAmount
         /\ pendingTimeout = NoAmount => createClicks = requestedAmount
         /\ pendingTimeout # NoAmount =>
              /\ pendingTimeout >= 1
              /\ lastBurst = chunks
              /\ createClicks + pendingTimeout = requestedAmount

\* an amount above two chunks has been created in full, its last burst after
\* the second timeout
C13_Witness ==
  /\ PreconditionsMet
  /\ requestedAmount > 2 * chunks
  /\ pendingTimeout = NoAmount
  /\ timeoutsRun = 2
  /\ createClicks = requestedAmount
  /\ lastBurst < chunks
====
